---------------------------- MODULE Spec2Model ----------------------------
(***************************************************************************)
(* A model of the real-time fan-out layer of the EDoS dashboard backend:   *)
(* RealTimeManager (backend/app/realtime_manager.py), the WebSocket        *)
(* session handlers (backend/app/api/websockets.py) and the monitor task   *)
(* of backend/main.py that broadcasts through the manager.                 *)
(*                                                                         *)
(* Execution model: one asyncio event loop.  The code between two awaits   *)
(* that suspend runs atomically, so every action below is one such         *)
(* stretch of one task.  Suspension points: websocket.accept(),            *)
(* websocket.send_text(), websocket.receive_text(), asyncio.sleep().       *)
(* RealTimeManager.disconnect contains no await and is atomic.             *)
(* Task.cancel() only requests the cancellation: CancelledError is thrown  *)
(* into the task at the await it is suspended in, the next time it runs    *)
(* (Python >= 3.8, where CancelledError is not an Exception).              *)
(***************************************************************************)
EXTENDS Integers, FiniteSets, Sequences, TLC

\* Number of WebSocket connections (one session handler task each).
NumConns == 2

Conns == 1..NumConns

\* Path user ids of the session handlers; NoUser is user_id=None (falsy).
Users == {"u1", "u2"}
NoUser == ""

\* realtime_manager.py:20-27, the keys of active_connections after __init__.
CanonicalTopics == {"alerts", "metrics", "network", "logs", "resources", "general"}

\* websockets.py:20,108,155: the three endpoints; each registers under the
\* topic of the same name (lines 47, 131, 178).
Endpoints == {"alerts", "metrics", "network"}

\* The outcomes of one websocket.send_text(): it returns, raises
\* WebSocketDisconnect, or raises another Exception.
SendOutcomes == {"ok", "disconnect", "error"}

\* How a session handler stops: the client closes (WebSocketDisconnect), any
\* other exception is raised in it, or its task is cancelled.
ExitReasons == {"client_close", "exception", "cancelled"}

VARIABLES
    active_connections,  \* topic -> set of connections          (line 20)
    user_connections,    \* user -> topic -> set of connections  (line 30)
    streaming_tasks,     \* topic -> task id                     (line 33)
    tasks,               \* task id -> state of a _stream_topic_data task
    handler,             \* connection -> state of its session handler task
    caller,              \* the broadcast pass of a caller outside the manager
    sendFailed,          \* history: connections a send of a broadcast pass failed for
    evicted,             \* history: connections a broadcast pass deregistered
                         \* (both forget a connection when its handler ends)
    auth,                \* connection -> how authentication of its request went
                         \* and the close codes its handler has sent
    inbox,               \* connection -> the client message receive_text will return
    alert_task           \* connection -> state of the stream_alerts task of its handler

vars == <<active_connections, user_connections, streaming_tasks, tasks,
          handler, caller, sendFailed, evicted, auth, inbox, alert_task>>

----------------------------------------------------------------------------
\* Python dict helpers.
Put(f, k, v) == [x \in DOMAIN f \cup {k} |-> IF x = k THEN v ELSE f[x]]
Del(f, k) == [x \in DOMAIN f \ {k} |-> f[x]]

\* The manager object together with the task table its methods act on.
Manager == [ac |-> active_connections, uc |-> user_connections,
            st |-> streaming_tasks, tasks |-> tasks, raised |-> FALSE]

\* asyncio.Task.done()
TaskDone(m, id) == m.tasks[id].pc = "done"

\* asyncio.Task.cancel() on a task that is not done: the request is recorded
\* and delivered when the task next runs.
TaskCancel(m, id) == [m EXCEPT !.tasks[id].must_cancel = TRUE]

\* The tasks of a topic are numbered; a task object that is done and that
\* streaming_tasks no longer refers to is garbage and leaves the table.
TaskIds(topic) == {<<topic, n>> : n \in 1..(NumConns + 1)}
FreshId(m, topic) ==
    CHOOSE id \in TaskIds(topic) :
        /\ id \notin DOMAIN m.tasks
        /\ \A n \in 1..(id[2] - 1) : <<topic, n>> \in DOMAIN m.tasks

\* A task object just returned by asyncio.create_task: scheduled, not yet run.
NewTask(topic) ==
    [topic |-> topic, pc |-> "created", must_cancel |-> FALSE,
     todo |-> {}, cur |-> {}, failed |-> {}, result |-> "pending"]

\* A slip: the set of the topic is always replaced by a new one.
AddToTopicOverwrites(ac, topic, websocket) == Put(ac, topic, {websocket})

\* A slip: a topic that is no key of active_connections is ignored.
AddToTopicKnownOnly(ac, topic, websocket) ==
    IF topic \in DOMAIN ac
    THEN [ac EXCEPT ![topic] = @ \cup {websocket}]
    ELSE ac

\* connect, lines 40-43.
AddToTopic(ac, topic, websocket) ==
    IF topic \in DOMAIN ac
    THEN [ac EXCEPT ![topic] = @ \cup {websocket}]
    ELSE Put(ac, topic, {websocket})

\* A slip: every connect starts a producer.
ShouldStartAlways(m, topic) == TRUE

\* A slip: a task that has been asked to cancel counts as gone.
ShouldStartIfCancelling(m, topic) ==
    \/ topic \notin DOMAIN m.st
    \/ TaskDone(m, m.st[topic])
    \/ m.tasks[m.st[topic]].must_cancel

\* connect, line 56: start a producer unless one is there and not done.
ShouldStart(m, topic) ==
    topic \notin DOMAIN m.st \/ TaskDone(m, m.st[topic])

\* A slip: accept() is awaited after the insertion into the topic's set, so
\* that what runs in one stretch is the insertion alone.
connectTopicOnly(m, websocket, topic, user_id) ==
    [m EXCEPT !.ac = AddToTopic(m.ac, topic, websocket)]

\* connect, lines 39-59: what runs, without suspension, once accept() has
\* returned.
connect(m, websocket, topic, user_id) ==
    LET ac1 == AddToTopic(m.ac, topic, websocket)
        uc0 == IF user_id \notin DOMAIN m.uc THEN Put(m.uc, user_id, <<>>)
               ELSE m.uc
        uc1 == IF topic \notin DOMAIN uc0[user_id]
               THEN [uc0 EXCEPT ![user_id] = Put(@, topic, {})]
               ELSE uc0
        uc2 == IF user_id # NoUser
               THEN [uc1 EXCEPT ![user_id][topic] = @ \cup {websocket}]
               ELSE m.uc
        start == ShouldStart(m, topic)
        kept == IF topic \in DOMAIN m.st /\ TaskDone(m, m.st[topic])
                THEN Del(m.tasks, m.st[topic])
                ELSE m.tasks
        id == FreshId([m EXCEPT !.tasks = kept], topic)
    IN  [m EXCEPT !.ac = ac1,
                  !.uc = uc2,
                  !.tasks = IF start THEN Put(kept, id, NewTask(topic)) ELSE @,
                  !.st = IF start THEN Put(@, topic, id) ELSE @]

\* A slip: the emptiness of the set is tested before the discard.
ShouldCancelTestsFirst(m, remaining, topic) ==
    /\ m.ac[topic] = {}
    /\ topic \in DOMAIN m.st
    /\ ~TaskDone(m, m.st[topic])

\* A slip: the emptiness of the set is not tested.
ShouldCancelAlways(m, remaining, topic) ==
    /\ topic \in DOMAIN m.st
    /\ ~TaskDone(m, m.st[topic])

\* disconnect, lines 68-72; `remaining` is the topic's set after the discard.
ShouldCancel(m, remaining, topic) ==
    /\ remaining = {}
    /\ topic \in DOMAIN m.st
    /\ ~TaskDone(m, m.st[topic])

\* A slip: the empty set of a topic is kept in the user's map.
PruneTopicKeepsEntry(ut, topic) == ut

\* disconnect, lines 81-82: the user's set for the topic is deleted when
\* the discard has emptied it.
PruneTopic(ut, topic) ==
    IF topic \in DOMAIN ut /\ ut[topic] = {} THEN Del(ut, topic) ELSE ut

\* A slip: the entry of the user is deleted with all its topics.
PruneUserDropsEntry(uc, user_id, topics) == Del(uc, user_id)

\* A slip: the entry of a user with no topic left is kept.
PruneUserKeepsEntry(uc, user_id, topics) == [uc EXCEPT ![user_id] = topics]

\* disconnect, lines 85-86: the entry of a user with no topic left is deleted.
PruneUser(uc, user_id, topics) ==
    IF DOMAIN topics = {} THEN Del(uc, user_id)
    ELSE [uc EXCEPT ![user_id] = topics]

\* disconnect, lines 61-88.  set.discard and the guarded dict lookups never
\* raise.
disconnect(m, websocket, topic, user_id) ==
    LET inAc == topic \in DOMAIN m.ac
        ac1 == IF inAc THEN [m.ac EXCEPT ![topic] = @ \ {websocket}] ELSE m.ac
        cancel == inAc /\ ShouldCancel(m, ac1[topic], topic)
        m1 == IF cancel THEN TaskCancel(m, m.st[topic]) ELSE m
        inUc == user_id # NoUser /\ user_id \in DOMAIN m.uc
        ut0 == IF inUc THEN m.uc[user_id] ELSE <<>>
        ut1 == IF topic \in DOMAIN ut0
               THEN [ut0 EXCEPT ![topic] = @ \ {websocket}]
               ELSE ut0
        ut2 == PruneTopic(ut1, topic)
        uc1 == IF ~inUc THEN m.uc ELSE PruneUser(m.uc, user_id, ut2)
    IN  [m1 EXCEPT !.ac = ac1, !.uc = uc1]

\* A slip: after its sends the pass clears the set of the topic.
DisconnectWholeTopic(m, disconnected_websockets, topic, user_id) ==
    [m EXCEPT !.ac[topic] = {}]

\* The loops of lines 108-109 and 132-133: disconnect for every websocket
\* whose send failed in the pass.
RECURSIVE DisconnectAll(_, _, _, _)
DisconnectAll(m, disconnected_websockets, topic, user_id) ==
    IF disconnected_websockets = {} THEN m
    ELSE LET ws == CHOOSE w \in disconnected_websockets : TRUE
         IN  DisconnectAll(disconnect(m, ws, topic, user_id),
                           disconnected_websockets \ {ws}, topic, user_id)

\* A slip: a connection is deregistered as soon as its send has failed.
DeregisterNowEager(failed, todo) == failed

\* Lines 98-109 and 122-133: the connections a pass calls disconnect for
\* after a send.  While the loop over the copy has connections left it only
\* appends to disconnected_websockets; the loop that deregisters runs after
\* the last send.
DeregisterNow(failed, todo) == IF todo = {} THEN failed ELSE {}

\* sum(stats.values())
RECURSIVE SumOver(_, _)
SumOver(f, keys) ==
    IF keys = {} THEN 0
    ELSE LET k == CHOOSE x \in keys : TRUE
         IN  f[k] + SumOver(f, keys \ {k})

\* get_connection_stats, lines 212-222.
get_connection_stats ==
    LET stats == [t \in DOMAIN active_connections |->
                     Cardinality(active_connections[t])]
    IN  [topic_connections |-> stats,
         total_connections |-> SumOver(stats, DOMAIN stats),
         active_topics |->
            Cardinality({t \in DOMAIN active_connections :
                            active_connections[t] # {}}),
         user_sessions |-> Cardinality(DOMAIN user_connections)]

----------------------------------------------------------------------------
\* The producer task of a topic: _stream_topic_data, lines 135-149.

\* The task ends.  asyncio ends it as cancelled when CancelledError leaves
\* the coroutine or when the coroutine returns while a cancellation is still
\* requested; otherwise its result is set.
Finished(t, outcome) ==
    [t EXCEPT !.pc = "done", !.todo = {}, !.cur = {}, !.failed = {},
              !.must_cancel = FALSE,
              !.result = IF t.must_cancel THEN "cancelled" ELSE outcome]

\* A slip: the coroutine has no except clause for CancelledError.
CancelNotCaught(t) == Finished(t, "cancelled")

\* CancelledError is thrown into the coroutine at its await (the request is
\* consumed) and caught at line 146: the coroutine returns.
CancelCaught(t) == Finished([t EXCEPT !.must_cancel = FALSE], "returned")

\* An Exception in the loop is caught at line 148: the coroutine returns.
ErrorCaught(t) == Finished(t, "returned")

\* Line 138, the loop condition: self.active_connections.get(topic).
LoopCondition(m, topic) == topic \in DOMAIN m.ac /\ m.ac[topic] # {}

\* Back at the head of the while loop: sleep again, or fall out of the loop.
\* (A task that falls out of the loop after it cancelled itself, in the
\* disconnect of its own pass, ends as cancelled.)
LoopHead(m, id) ==
    LET t == m.tasks[id]
    IN  [m EXCEPT !.tasks[id] =
            IF LoopCondition(m, t.topic)
            THEN [t EXCEPT !.pc = "sleep", !.todo = {}, !.cur = {}, !.failed = {}]
            ELSE Finished(t, "returned")]

\* _generate_sample_data, lines 151-210: a payload for four of the topics,
\* None for every other topic.
generate_sample_data(topic) ==
    IF topic \in {"alerts", "metrics", "network", "resources"} THEN "data"
    ELSE "none"

\* A slip: a topic named after a user stands for the user's "alerts" set.
TopicTargetsUserChannel(m, topic) ==
    IF topic \in DOMAIN m.ac THEN m.ac[topic]
    ELSE UNION {m.uc[u]["alerts"] :
                   u \in {v \in DOMAIN m.uc : /\ "alerts" \in DOMAIN m.uc[v]
                                               /\ topic = "alerts_user_" \o v}}

\* A slip: the pass iterates the connections of the users' sets.
TopicTargetsOfUsers(m, topic) ==
    UNION {m.uc[u][topic] : u \in {v \in DOMAIN m.uc : topic \in DOMAIN m.uc[v]}}

\* broadcast_to_topic, lines 92-98: the connections the pass iterates, a
\* copy of the topic's set; none when the topic has no entry (the early
\* return of line 93).
TopicTargets(m, topic) ==
    IF topic \in DOMAIN m.ac THEN m.ac[topic] ELSE {}

\* A slip: only WebSocketDisconnect is caught.
SendCaughtDisconnectOnly(out) == out = "disconnect"

\* The except clauses around send_text, lines 101-105 and 125-129:
\* WebSocketDisconnect and every other Exception are caught.
SendCaught(out) == out \in {"disconnect", "error"}

\* What one send_text does to the pass it belongs to: the send went through,
\* it failed and the websocket is appended to disconnected_websockets, or
\* the exception leaves the pass.
SendResult(out) ==
    IF out = "ok" THEN "sent"
    ELSE IF SendCaught(out) THEN "failed"
    ELSE "raised"
SendResults == {SendResult(out) : out \in SendOutcomes}

\* The connections whose session handler has not ended.
Live == {c \in Conns : handler[c].pc # "done"}

Commit(m) ==
    /\ active_connections' = m.ac
    /\ user_connections' = m.uc
    /\ streaming_tasks' = m.st
    /\ tasks' = m.tasks

\* The first step of a task.  A task cancelled before it ever ran never
\* enters the coroutine; otherwise the loop condition is evaluated.
TaskStart(id) ==
    /\ tasks[id].pc = "created"
    /\ IF tasks[id].must_cancel
       THEN tasks' = [tasks EXCEPT ![id] = Finished(@, "cancelled")]
       ELSE tasks' = LoopHead(Manager, id).tasks
    /\ UNCHANGED <<active_connections, user_connections, streaming_tasks,
                   handler, caller, sendFailed, evicted, auth, inbox, alert_task>>

\* asyncio.sleep(2) returns (line 139): a pending cancellation is delivered;
\* otherwise the next event is generated (line 142) and, if there is one,
\* broadcast_to_topic starts (lines 92-100) and suspends in its first send.
TaskWake(id) ==
    /\ tasks[id].pc = "sleep"
    /\ LET t == tasks[id]
       IN  IF t.must_cancel
           THEN tasks' = [tasks EXCEPT ![id] = CancelCaught(t)]
           ELSE \E raises \in BOOLEAN :
                IF raises
                THEN tasks' = [tasks EXCEPT ![id] = ErrorCaught(t)]
                ELSE IF generate_sample_data(t.topic) = "none"
                          \/ ~LoopCondition(Manager, t.topic)
                     THEN tasks' = LoopHead(Manager, id).tasks
                     ELSE \E first \in TopicTargets(Manager, t.topic) :
                            tasks' = [tasks EXCEPT ![id] =
                                [t EXCEPT !.pc = "send",
                                          !.cur = {first},
                                          !.todo = TopicTargets(Manager, t.topic) \ {first}]]
    /\ UNCHANGED <<active_connections, user_connections, streaming_tasks,
                   handler, caller, sendFailed, evicted, auth, inbox, alert_task>>

\* The send_text the producer's broadcast pass is suspended in returns or
\* raises (lines 98-105); the pass goes on to its next send or, after the
\* last one, deregisters the failed connections (lines 108-109) and the loop
\* condition is evaluated again.
TaskSendReturns(id) ==
    /\ tasks[id].pc = "send"
    /\ LET t == tasks[id]
       IN  IF t.must_cancel
           THEN /\ Commit([Manager EXCEPT !.tasks[id] = CancelCaught(t)])
                /\ UNCHANGED <<sendFailed, evicted>>
           ELSE \E res \in SendResults :
                LET failed1 == IF res = "sent" THEN t.failed
                               ELSE t.failed \cup t.cur
                IN  /\ sendFailed' = IF res = "sent" THEN sendFailed
                                     ELSE sendFailed \cup (t.cur \cap Live)
                    /\ IF res = "raised"
                       THEN /\ Commit([Manager EXCEPT !.tasks[id] = ErrorCaught(t)])
                            /\ UNCHANGED evicted
                       ELSE IF t.todo # {}
                       THEN /\ \E nxt \in t.todo :
                                 Commit([DisconnectAll(Manager,
                                            DeregisterNow(failed1, t.todo),
                                            t.topic, NoUser)
                                         EXCEPT !.tasks[id] =
                                    [t EXCEPT !.cur = {nxt},
                                              !.todo = @ \ {nxt},
                                              !.failed = failed1]])
                            /\ UNCHANGED evicted
                       ELSE /\ Commit(LoopHead(
                                 DisconnectAll(Manager,
                                               DeregisterNow(failed1, t.todo),
                                               t.topic, NoUser), id))
                            /\ evicted' = evicted \cup (failed1 \cap Live)
    /\ UNCHANGED <<handler, caller, auth, inbox, alert_task>>

----------------------------------------------------------------------------
\* A caller of the manager other than a producer task: the monitor task of
\* main.py calls broadcast_to_topic (main.py:215, 242, 260); broadcast_to_user
\* is the manager's public method for a user's connections.

IdleCaller ==
    [kind |-> "idle", topic |-> "", user |-> NoUser,
     todo |-> {}, cur |-> {}, failed |-> {}]

\* Topics a caller may broadcast to (the monitor: "alerts", "logs",
\* "metrics").
CallerTopics == CanonicalTopics

\* broadcast_to_topic up to its first send, lines 92-100.
CallerBroadcastTopic(topic) ==
    /\ caller.kind = "idle"
    /\ \E first \in TopicTargets(Manager, topic) :
         caller' = [kind |-> "topic", topic |-> topic, user |-> NoUser,
                    todo |-> TopicTargets(Manager, topic) \ {first},
                    cur |-> {first}, failed |-> {}]
    /\ UNCHANGED <<active_connections, user_connections, streaming_tasks,
                   tasks, handler, sendFailed, evicted, auth, inbox, alert_task>>

\* A slip: the pass iterates the set of the topic.
UserTargetsWholeTopic(m, user_id, topic) ==
    IF topic \in DOMAIN m.ac THEN m.ac[topic] ELSE {}

\* broadcast_to_user, lines 113-122: the connections the pass iterates, a
\* copy of the user's set for the topic; none when the user or the topic has
\* no entry (the early return of line 117).
UserTargets(m, user_id, topic) ==
    IF user_id \in DOMAIN m.uc /\ topic \in DOMAIN m.uc[user_id]
    THEN m.uc[user_id][topic]
    ELSE {}

\* broadcast_to_user up to its first send, lines 113-124.
CallerBroadcastUser(user_id, topic) ==
    /\ caller.kind = "idle"
    /\ \E first \in UserTargets(Manager, user_id, topic) :
         caller' = [kind |-> "user", topic |-> topic, user |-> user_id,
                    todo |-> UserTargets(Manager, user_id, topic) \ {first},
                    cur |-> {first}, failed |-> {}]
    /\ UNCHANGED <<active_connections, user_connections, streaming_tasks,
                   tasks, handler, sendFailed, evicted, auth, inbox, alert_task>>

\* The send_text the caller's pass is suspended in returns or raises; after
\* the last send the failed connections are deregistered: disconnect(ws,
\* topic) from broadcast_to_topic (line 109), disconnect(ws, topic, user_id)
\* from broadcast_to_user (line 133).  An exception the pass does not catch
\* leaves the pass; the monitor catches it (main.py:225, 246, 266).
CallerSendReturns ==
    /\ caller.kind \in {"topic", "user"}
    /\ \E res \in SendResults :
         LET failed1 == IF res = "sent" THEN caller.failed
                        ELSE caller.failed \cup caller.cur
         IN  /\ sendFailed' = IF res = "sent" THEN sendFailed
                              ELSE sendFailed \cup (caller.cur \cap Live)
             /\ IF res = "raised"
                THEN /\ caller' = IdleCaller
                     /\ UNCHANGED <<active_connections, user_connections,
                                    streaming_tasks, tasks, evicted>>
                ELSE IF caller.todo # {}
                THEN /\ \E nxt \in caller.todo :
                          caller' = [caller EXCEPT !.cur = {nxt},
                                                   !.todo = @ \ {nxt},
                                                   !.failed = failed1]
                     /\ Commit(DisconnectAll(Manager,
                                             DeregisterNow(failed1, caller.todo),
                                             caller.topic, caller.user))
                     /\ UNCHANGED evicted
                ELSE /\ caller' = IdleCaller
                     /\ Commit(DisconnectAll(Manager,
                                             DeregisterNow(failed1, caller.todo),
                                             caller.topic, caller.user))
                     /\ evicted' = evicted \cup (failed1 \cap Live)
    /\ UNCHANGED <<handler, auth, inbox, alert_task>>

----------------------------------------------------------------------------
\* The session handlers: websocket_alerts, websocket_metrics,
\* websocket_network (websockets.py).

\* Users are interchangeable, and so are the three endpoints (their handlers
\* register, and deregister in a finally clause, in the same way): the k-th
\* connection opened uses one of the first k of them.
FirstUsers(c) == {"u1"} \cup (IF c > 1 THEN {"u2"} ELSE {})
FirstEndpoints(c) ==
    {"alerts"} \cup (IF c > 1 THEN {"metrics"} ELSE {})
               \cup (IF c > 2 THEN {"network"} ELSE {})

IdleHandler == [pc |-> "idle", topic |-> "", user |-> NoUser, exit |-> "none"]

\* Nothing is known of the authentication of a connection whose request has
\* not arrived or whose handler has ended; no client message is waiting.
NoAuth == [cause |-> "none", codes |-> <<>>]
NoMessage == "none"

\* The handler has created no stream_alerts task.
NoAlertTask == [pc |-> "none", must_cancel |-> FALSE]

\* A slip: the finally clause does not cancel the task.
CancelAlertTaskSkipped(t) == t

\* websockets.py:104-105: alert_task.cancel() if the handler got as far as
\* creating the task; cancel() on a task that is done does nothing.
CancelAlertTask(t) ==
    IF t.pc \in {"none", "done"} THEN t ELSE [t EXCEPT !.must_cancel = TRUE]

\* A slip: the clean-up sits in the except WebSocketDisconnect clause.
FinallyOnClientCloseOnly(endpoint, reason) == reason = "client_close"

\* The finally clauses of websockets.py:101-103, 151-152 and 198-199: they
\* run whichever way the try block is left.
FinallyRuns(endpoint, reason) == TRUE

\* An authenticated request reaches realtime_manager.connect (lines 47, 131,
\* 178) and suspends in websocket.accept() (realtime_manager.py:37).
\* Connections are interchangeable, so they are opened in index order.
HandlerOpen(c, endpoint, user_id) ==
    /\ handler[c].pc = "idle"
    /\ \A d \in Conns : d < c => handler[d].pc # "idle"
    /\ endpoint \in FirstEndpoints(c)
    /\ user_id \in FirstUsers(c)
    /\ handler' = [handler EXCEPT ![c] =
                      [pc |-> "accepting", topic |-> endpoint,
                       user |-> user_id, exit |-> "none"]]
    /\ UNCHANGED <<active_connections, user_connections, streaming_tasks,
                   tasks, caller, sendFailed, evicted, auth, inbox, alert_task>>

\* accept() returns and connect registers the connection (lines 39-59).
HandlerAccepted(c) ==
    /\ handler[c].pc = "accepting"
    /\ Commit(connect(Manager, c, handler[c].topic, handler[c].user))
    /\ handler' = [handler EXCEPT ![c].pc = "open"]
    /\ UNCHANGED <<caller, sendFailed, evicted, auth, inbox, alert_task>>

\* The handler leaves its try block, in accept() or in one of the sends,
\* receives and sleeps of its loop, for one of ExitReasons, and its finally
\* clause deregisters.  The ended handler keeps no locals; `exit` records
\* where it left.
CleanUp(c, reason) ==
    IF FinallyRuns(handler[c].topic, reason)
    THEN disconnect(Manager, c, handler[c].topic, handler[c].user)
    ELSE Manager

HandlerTerminate(c) ==
    /\ handler[c].pc \in {"accepting", "open", "replying"}
    /\ \E m \in {CleanUp(c, reason) : reason \in ExitReasons} :
           /\ Commit(m)
           /\ handler' = [handler EXCEPT ![c] =
                 [pc |-> "done", topic |-> "", user |-> NoUser,
                  exit |-> IF m.raised THEN "disconnect_raised"
                           ELSE IF handler[c].pc = "accepting" THEN "in_accept"
                           ELSE "in_loop"]]
    /\ sendFailed' = sendFailed \ {c}
    /\ evicted' = evicted \ {c}
    /\ auth' = [auth EXCEPT ![c] = NoAuth]
    /\ inbox' = [inbox EXCEPT ![c] = NoMessage]
    /\ alert_task' = [alert_task EXCEPT ![c] = CancelAlertTask(@)]
    /\ UNCHANGED caller

----------------------------------------------------------------------------
\* A client of the manager's interface that registers connections itself:
\* connect(websocket, topic, user_id=None) takes any topic and an optional
\* user id (realtime_manager.py:35), and so does disconnect (line 61).

\* A topic outside the canonical six (the monitor names such a topic at
\* main.py:220).
DynamicTopic == "alerts_user_u1"
ApiTopics == {"alerts", DynamicTopic}

\* The user id of the k-th connection: none, or one of the first k users.
ApiUsers(c) == {NoUser} \cup FirstUsers(c)

\* connect(websocket, topic, user_id) is called and suspends in
\* websocket.accept() (line 37).
ApiConnect(c, topic, user_id) ==
    /\ handler[c].pc = "idle"
    /\ \A d \in Conns : d < c => handler[d].pc # "idle"
    /\ topic \in ApiTopics
    /\ user_id \in ApiUsers(c)
    /\ handler' = [handler EXCEPT ![c] =
                      [pc |-> "accepting", topic |-> topic,
                       user |-> user_id, exit |-> "none"]]
    /\ UNCHANGED <<active_connections, user_connections, streaming_tasks,
                   tasks, caller, sendFailed, evicted, auth, inbox, alert_task>>

----------------------------------------------------------------------------
\* The message loop of websocket_alerts, websockets.py:68-95.

\* What a client sends: a JSON object of type "resource_selected", a JSON
\* object of another type (or of none), or text that is no JSON object.
Messages == {"resource_selected", "other_type", "malformed"}

\* A slip: the type of the message is not tested.
OnMessageRepliesAlways(msg) ==
    IF msg = "malformed" THEN "raise" ELSE "reply"

\* Lines 72-92: json.loads (or data.get) raises for text that is no JSON
\* object; a "resource_selected" message is answered; any other message
\* falls through to the next receive_text.
OnMessage(msg) ==
    IF msg = "malformed" THEN "raise"
    ELSE IF msg = "resource_selected" THEN "reply"
    ELSE "ignore"

\* The client of a registered alerts connection sends a message; the
\* handlers of the other endpoints never read what their client sends.
ClientSends(c, msg) ==
    /\ handler[c].pc = "open"
    /\ handler[c].topic = "alerts"
    /\ inbox[c] = NoMessage
    /\ inbox' = [inbox EXCEPT ![c] = msg]
    /\ UNCHANGED <<active_connections, user_connections, streaming_tasks,
                   tasks, handler, caller, sendFailed, evicted, auth,
                   alert_task>>

\* The handler ends through its finally clause (lines 101-105).
HandlerEnds(c, reason, exit) ==
    /\ Commit(CleanUp(c, reason))
    /\ handler' = [handler EXCEPT ![c] =
          [pc |-> "done", topic |-> "", user |-> NoUser, exit |-> exit]]
    /\ sendFailed' = sendFailed \ {c}
    /\ evicted' = evicted \ {c}
    /\ auth' = [auth EXCEPT ![c] = NoAuth]
    /\ inbox' = [inbox EXCEPT ![c] = NoMessage]
    /\ alert_task' = [alert_task EXCEPT ![c] = CancelAlertTask(@)]

\* receive_text returns the message (line 71) and the handler acts on it:
\* it suspends in the send of the resource alerts (line 83), goes back to
\* receive_text, or leaves through `except Exception` (line 99).
HandlerReceives(c) ==
    /\ handler[c].pc = "open"
    /\ handler[c].topic = "alerts"
    /\ inbox[c] # NoMessage
    /\ IF OnMessage(inbox[c]) = "raise"
       THEN HandlerEnds(c, "exception", "bad_message")
       ELSE /\ handler' = [handler EXCEPT ![c].pc =
                    IF OnMessage(inbox[c]) = "reply" THEN "replying" ELSE @]
            /\ inbox' = [inbox EXCEPT ![c] = NoMessage]
            /\ UNCHANGED <<active_connections, user_connections,
                           streaming_tasks, tasks, sendFailed, evicted, auth,
                           alert_task>>
    /\ UNCHANGED caller

\* The send of the resource alerts returns and the handler is back at
\* receive_text, or it raises: WebSocketDisconnect breaks the loop (line
\* 95), another Exception is caught at line 99.
HandlerReplySent(c) ==
    /\ handler[c].pc = "replying"
    /\ \E out \in SendOutcomes :
         IF out = "ok"
         THEN /\ handler' = [handler EXCEPT ![c].pc = "open"]
              /\ UNCHANGED <<active_connections, user_connections,
                             streaming_tasks, tasks, sendFailed, evicted,
                             auth, inbox, alert_task>>
         ELSE HandlerEnds(c, IF out = "disconnect" THEN "client_close"
                             ELSE "exception", "in_loop")
    /\ UNCHANGED caller

----------------------------------------------------------------------------
\* The per-connection task of websocket_alerts: stream_alerts,
\* websockets.py:222-249, created at lines 63-65.

\* The task has ended; asyncio drops a cancellation requested of it.
AlertTaskDone == [pc |-> "done", must_cancel |-> FALSE]

\* The send of the initial alerts (line 52) returns and the handler creates
\* the task (line 63), then waits in receive_text (line 71).  A send that
\* raises leaves the try block before the task exists (HandlerTerminate).
HandlerInitialSent(c) ==
    /\ handler[c].pc = "open"
    /\ handler[c].topic = "alerts"
    /\ alert_task[c].pc = "none"
    /\ alert_task' = [alert_task EXCEPT ![c] =
                         [pc |-> "created", must_cancel |-> FALSE]]
    /\ UNCHANGED <<active_connections, user_connections, streaming_tasks,
                   tasks, handler, caller, sendFailed, evicted, auth, inbox>>

\* The first step of the task: cancelled before it ever ran it never enters
\* the coroutine; otherwise it generates an alert and suspends in the send
\* of line 231.
AlertStart(c) ==
    /\ alert_task[c].pc = "created"
    /\ alert_task' = [alert_task EXCEPT ![c] =
                         IF @.must_cancel THEN AlertTaskDone
                         ELSE [@ EXCEPT !.pc = "send"]]
    /\ UNCHANGED <<active_connections, user_connections, streaming_tasks,
                   tasks, handler, caller, sendFailed, evicted, auth, inbox>>

\* The send of line 231 returns and the task sleeps (line 244), or it
\* raises: CancelledError, thrown into the send when a cancellation is
\* requested, is caught at line 246, WebSocketDisconnect and every other
\* Exception at line 248; the coroutine returns.
AlertSendReturns(c) ==
    /\ alert_task[c].pc = "send"
    /\ \E out \in SendOutcomes :
         alert_task' = [alert_task EXCEPT ![c] =
                           IF @.must_cancel \/ out # "ok" THEN AlertTaskDone
                           ELSE [@ EXCEPT !.pc = "sleep"]]
    /\ UNCHANGED <<active_connections, user_connections, streaming_tasks,
                   tasks, handler, caller, sendFailed, evicted, auth, inbox>>

\* The sleep of line 244 returns, or a cancellation interrupts it (caught
\* at line 246); the next alert is generated and its send starts.
AlertWake(c) ==
    /\ alert_task[c].pc = "sleep"
    /\ alert_task' = [alert_task EXCEPT ![c] =
                         IF @.must_cancel THEN AlertTaskDone
                         ELSE [@ EXCEPT !.pc = "send"]]
    /\ UNCHANGED <<active_connections, user_connections, streaming_tasks,
                   tasks, handler, caller, sendFailed, evicted, auth, inbox>>

----------------------------------------------------------------------------
\* Authentication, websockets.py:26-40, 114-125, 161-172.

\* How the authentication of a request goes: it passes, no token was
\* supplied (line 27), verify_token_ws raises (line 38), or the subject of
\* the token is not the user id of the path (line 34).
AuthFailures == {"missing", "invalid", "mismatch"}
AuthOutcomes == {"ok"} \cup AuthFailures

\* A slip: the subject of the token is not compared with the path.
AuthRejectsBadTokenOnly(outcome) == outcome \in {"missing", "invalid"}

\* Lines 27, 34 and 38: each failure closes and returns.
AuthRejects(outcome) == outcome \in AuthFailures

\* The code of websocket.close, lines 28, 35 and 39 (and 115, 121, 124;
\* 162, 168, 171): the three handlers use the same codes.
CloseCode(endpoint, cause) == IF cause = "mismatch" THEN 4003 ELSE 4001

\* A request arrives and is authenticated.  A rejected request suspends in
\* websocket.close; an authenticated one goes on to realtime_manager.connect
\* and suspends in websocket.accept() (as in HandlerOpen).
HandlerRequest(c, endpoint, user_id, outcome) ==
    /\ handler[c].pc = "idle"
    /\ \A d \in Conns : d < c => handler[d].pc # "idle"
    /\ endpoint \in FirstEndpoints(c)
    /\ user_id \in FirstUsers(c)
    /\ handler' = [handler EXCEPT ![c] =
                      [pc |-> IF AuthRejects(outcome) THEN "closing"
                              ELSE "accepting",
                       topic |-> endpoint, user |-> user_id, exit |-> "none"]]
    /\ auth' = [auth EXCEPT ![c] =
                   [cause |-> outcome,
                    codes |-> IF AuthRejects(outcome)
                              THEN <<CloseCode(endpoint, outcome)>>
                              ELSE <<>>]]
    /\ UNCHANGED <<active_connections, user_connections, streaming_tasks,
                   tasks, caller, sendFailed, evicted, inbox, alert_task>>

\* websocket.close returns, raises an Exception, or the handler task is
\* cancelled in it.
CloseOutcomes == {"ok", "error", "cancelled"}

\* The close of line 35 (121, 168) is inside the try block: what it raises
\* is caught at line 38 (`except Exception`; a bare `except:` at lines 123
\* and 170, which catches the cancellation too) and the connection is closed
\* once more, as for an invalid token.  The other closes are outside.
CloseCaught(endpoint, a, out) ==
    /\ a.cause = "mismatch"
    /\ Len(a.codes) = 1
    /\ \/ out = "error"
       \/ out = "cancelled" /\ endpoint # "alerts"

\* The handler after its close: closing again, or ended.
CloseStep(c, out) ==
    IF CloseCaught(handler[c].topic, auth[c], out)
    THEN [h |-> handler[c],
          a |-> [auth[c] EXCEPT
                    !.codes = Append(@, CloseCode(handler[c].topic, "invalid"))]]
    ELSE [h |-> [pc |-> "done", topic |-> "", user |-> NoUser,
                 exit |-> "rejected"],
          a |-> NoAuth]

HandlerCloseReturns(c) ==
    /\ handler[c].pc = "closing"
    /\ \E nxt \in {CloseStep(c, out) : out \in CloseOutcomes} :
           /\ handler' = [handler EXCEPT ![c] = nxt.h]
           /\ auth' = [auth EXCEPT ![c] = nxt.a]
    /\ UNCHANGED <<active_connections, user_connections, streaming_tasks,
                   tasks, caller, sendFailed, evicted, inbox, alert_task>>

----------------------------------------------------------------------------
\* The monitor task of main.py, monitor_supabase_changes (lines 187-269):
\* lifespan starts it (line 94) and cancels it at shutdown (lines 100-103).
\* `caller` is this task.

\* main.py:221: the topic of the second broadcast of an alert record that
\* carries a user id.
UserChannel(user_id) == "alerts_user_" \o user_id

\* The topics of the monitor's broadcasts of fetched records (main.py:215,
\* 220, 242).
MonitorTopics == {"alerts", "logs"} \cup {UserChannel(u) : u \in Users}

\* A slip: the call drops the topics that have no connection.
AfterStatsPrunes(m) ==
    [m EXCEPT !.ac = [t \in {k \in DOMAIN m.ac : m.ac[k] # {}} |-> m.ac[t]]]

\* The manager after a call of get_connection_stats (realtime_manager.py
\* lines 212-222): the method builds the local dict `stats` and the dict it
\* returns, and assigns to no attribute of the manager.
AfterStats(m) == m

\* main.py:251-262: the monitor calls get_connection_stats (line 257) and
\* then broadcast_to_topic("metrics", ...), which suspends in its first
\* send, or returns at once when the topic has no connection.
MonitorMetrics ==
    /\ caller.kind = "idle"
    /\ LET m == AfterStats(Manager)
       IN  /\ Commit(m)
           /\ \/ /\ TopicTargets(m, "metrics") = {}
                 /\ caller' = caller
              \/ \E first \in TopicTargets(m, "metrics") :
                   caller' = [kind |-> "topic", topic |-> "metrics",
                              user |-> NoUser,
                              todo |-> TopicTargets(m, "metrics") \ {first},
                              cur |-> {first}, failed |-> {}]
    /\ UNCHANGED <<handler, sendFailed, evicted, auth, inbox, alert_task>>

\* The monitor task after its cancellation.
CancelledCaller == [IdleCaller EXCEPT !.kind = "cancelled"]

\* lifespan after its yield, main.py:100-103: background_task.cancel() and
\* nothing else.  CancelledError is thrown into the monitor at the await it
\* is suspended in (a send of its pass, its sleep); neither the pass
\* (`except Exception`, realtime_manager.py:103) nor the monitor
\* (main.py:225, 246, 267) catches it, so the pass is abandoned and the task
\* ends.  The monitor does nothing between the request and its delivery:
\* the two are one step here.
Shutdown ==
    /\ caller.kind # "cancelled"
    /\ caller' = CancelledCaller
    /\ UNCHANGED <<active_connections, user_connections, streaming_tasks,
                   tasks, handler, sendFailed, evicted, auth, inbox, alert_task>>

----------------------------------------------------------------------------
Init ==
    /\ active_connections = [t \in CanonicalTopics |-> {}]
    /\ user_connections = <<>>
    /\ streaming_tasks = <<>>
    /\ tasks = <<>>
    /\ handler = [c \in Conns |-> IdleHandler]
    /\ caller = IdleCaller
    /\ sendFailed = {}
    /\ evicted = {}
    /\ auth = [c \in Conns |-> NoAuth]
    /\ inbox = [c \in Conns |-> NoMessage]
    /\ alert_task = [c \in Conns |-> NoAlertTask]

Next ==
    \/ \E c \in Conns, e \in Endpoints, u \in Users : HandlerOpen(c, e, u)
    \/ \E c \in Conns : HandlerAccepted(c)
    \/ \E c \in Conns : HandlerTerminate(c)
    \/ \E id \in DOMAIN tasks : TaskStart(id)
    \/ \E id \in DOMAIN tasks : TaskWake(id)
    \/ \E id \in DOMAIN tasks : TaskSendReturns(id)
    \/ \E t \in CallerTopics : CallerBroadcastTopic(t)
    \/ \E u \in Users, t \in Endpoints : CallerBroadcastUser(u, t)
    \/ CallerSendReturns

Spec == Init /\ [][Next]_vars

\* The session handlers with their authentication: every request is
\* authenticated first.
NextSession ==
    \/ \E c \in Conns, e \in Endpoints, u \in Users, o \in AuthOutcomes :
            HandlerRequest(c, e, u, o)
    \/ \E c \in Conns : HandlerCloseReturns(c)
    \/ \E c \in Conns : HandlerAccepted(c)
    \/ \E c \in Conns : HandlerTerminate(c)
    \/ \E id \in DOMAIN tasks : TaskStart(id)
    \/ \E id \in DOMAIN tasks : TaskWake(id)
    \/ \E id \in DOMAIN tasks : TaskSendReturns(id)
    \/ \E t \in CallerTopics : CallerBroadcastTopic(t)
    \/ \E u \in Users, t \in Endpoints : CallerBroadcastUser(u, t)
    \/ CallerSendReturns

SpecSession == Init /\ [][NextSession]_vars

\* The session handlers and the producer tasks alone: every broadcast pass
\* is a producer's.
NextProducers ==
    \/ \E c \in Conns, e \in Endpoints, u \in Users : HandlerOpen(c, e, u)
    \/ \E c \in Conns : HandlerAccepted(c)
    \/ \E c \in Conns : HandlerTerminate(c)
    \/ \E id \in DOMAIN tasks : TaskStart(id)
    \/ \E id \in DOMAIN tasks : TaskWake(id)
    \/ \E id \in DOMAIN tasks : TaskSendReturns(id)

SpecProducers == Init /\ [][NextProducers]_vars

\* The session handlers with the messages of their clients, and the
\* producer tasks.
NextAlerts ==
    \/ \E c \in Conns, e \in Endpoints, u \in Users : HandlerOpen(c, e, u)
    \/ \E c \in Conns : HandlerAccepted(c)
    \/ \E c \in Conns : HandlerTerminate(c)
    \/ \E c \in Conns, msg \in Messages : ClientSends(c, msg)
    \/ \E c \in Conns : HandlerReceives(c)
    \/ \E c \in Conns : HandlerReplySent(c)
    \/ \E id \in DOMAIN tasks : TaskStart(id)
    \/ \E id \in DOMAIN tasks : TaskWake(id)
    \/ \E id \in DOMAIN tasks : TaskSendReturns(id)

SpecAlerts == Init /\ [][NextAlerts]_vars

\* The event loop runs every task that is ready: a task with a cancellation
\* requested is scheduled at once (Task.cancel wakes it from the await it is
\* suspended in; a task not yet started is already scheduled), so its next
\* step is taken.  Nothing is assumed of the steps that wait for a timer,
\* the network or a client.
DeliverCancel(id) ==
    /\ id \in DOMAIN tasks
    /\ tasks[id].must_cancel
    /\ TaskStart(id) \/ TaskWake(id) \/ TaskSendReturns(id)

AllTaskIds == UNION {TaskIds(T) : T \in Endpoints}

FairProducers ==
    SpecProducers /\ \A id \in AllTaskIds : WF_vars(DeliverCancel(id))

\* The manager under a client of its interface: connections with and
\* without a user id, on a canonical and on a dynamic topic; the client
\* deregisters with the topic and the user id it registered with
\* (HandlerTerminate), and broadcasts to topics and to users.
NextApi ==
    \/ \E c \in Conns, t \in ApiTopics, u \in Users \cup {NoUser} :
            ApiConnect(c, t, u)
    \/ \E c \in Conns : HandlerAccepted(c)
    \/ \E c \in Conns : HandlerTerminate(c)
    \/ \E id \in DOMAIN tasks : TaskStart(id)
    \/ \E id \in DOMAIN tasks : TaskWake(id)
    \/ \E id \in DOMAIN tasks : TaskSendReturns(id)
    \/ \E t \in ApiTopics : CallerBroadcastTopic(t)
    \/ \E u \in Users, t \in ApiTopics : CallerBroadcastUser(u, t)
    \/ CallerSendReturns

SpecApi == Init /\ [][NextApi]_vars

\* The same client when nothing but the producers broadcasts.
NextApiProducers ==
    \/ \E c \in Conns, t \in ApiTopics, u \in Users \cup {NoUser} :
            ApiConnect(c, t, u)
    \/ \E c \in Conns : HandlerAccepted(c)
    \/ \E c \in Conns : HandlerTerminate(c)
    \/ \E id \in DOMAIN tasks : TaskStart(id)
    \/ \E id \in DOMAIN tasks : TaskWake(id)
    \/ \E id \in DOMAIN tasks : TaskSendReturns(id)

SpecApiProducers == Init /\ [][NextApiProducers]_vars

\* The application: the session handlers, the producer tasks, the monitor
\* task and the shutdown step of lifespan.
NextMonitor ==
    \/ \E c \in Conns, e \in Endpoints, u \in Users : HandlerOpen(c, e, u)
    \/ \E c \in Conns : HandlerAccepted(c)
    \/ \E c \in Conns : HandlerTerminate(c)
    \/ \E id \in DOMAIN tasks : TaskStart(id)
    \/ \E id \in DOMAIN tasks : TaskWake(id)
    \/ \E id \in DOMAIN tasks : TaskSendReturns(id)
    \/ \E t \in MonitorTopics : CallerBroadcastTopic(t)
    \/ MonitorMetrics
    \/ CallerSendReturns
    \/ Shutdown

SpecMonitor == Init /\ [][NextMonitor]_vars

\* The session handlers with the stream_alerts task of the alerts handler,
\* and the producer tasks.
NextAlertTask ==
    \/ \E c \in Conns, e \in Endpoints, u \in Users : HandlerOpen(c, e, u)
    \/ \E c \in Conns : HandlerAccepted(c)
    \/ \E c \in Conns : HandlerInitialSent(c)
    \/ \E c \in Conns : HandlerTerminate(c)
    \/ \E c \in Conns : AlertStart(c)
    \/ \E c \in Conns : AlertSendReturns(c)
    \/ \E c \in Conns : AlertWake(c)
    \/ \E id \in DOMAIN tasks : TaskStart(id)
    \/ \E id \in DOMAIN tasks : TaskWake(id)
    \/ \E id \in DOMAIN tasks : TaskSendReturns(id)

SpecAlertTask == Init /\ [][NextAlertTask]_vars

\* As for the producers: a stream_alerts task with a cancellation requested
\* is scheduled at once, so its next step is taken.
DeliverAlertCancel(c) ==
    /\ alert_task[c].must_cancel
    /\ AlertStart(c) \/ AlertSendReturns(c) \/ AlertWake(c)

FairAlertTask ==
    SpecAlertTask /\ \A c \in Conns : WF_vars(DeliverAlertCancel(c))

----------------------------------------------------------------------------
\* Properties.

\* The tasks of a topic that are not done, and whether one of them is running
\* with no cancellation requested.
LiveTasks(T) == {id \in DOMAIN tasks : tasks[id].topic = T /\ tasks[id].pc # "done"}
RunningProducer(T) == \E id \in LiveTasks(T) : ~tasks[id].must_cancel

\* The connections registered for T and not deregistered since: the handler
\* has returned from connect, has not run its finally clause, and no
\* broadcast pass has called disconnect for the connection.
Registered(T) ==
    {c \in Conns : handler[c].pc = "open" /\ handler[c].topic = T /\ c \notin evicted}

\* Whether the connection is in some set of the registry.
InRegistry(c) ==
    \/ \E T \in DOMAIN active_connections : c \in active_connections[T]
    \/ \E u \in DOMAIN user_connections :
         \E T \in DOMAIN user_connections[u] : c \in user_connections[u][T]

\* C1: a topic with a registered connection has a running producer; in
\* particular a connect that registers a connection leaves a producer for
\* its topic that is running and has not been asked to cancel (a task that
\* has been asked to cancel ends at its next step and nothing restarts it).
C1_ConnectLeavesRunningProducer ==
    [][\A c \in Conns :
         (handler[c].pc = "accepting" /\ handler'[c].pc = "open")
            => RunningProducer(handler[c].topic)']_vars

\* C2: every topic has at most one producer task that is not done.
C2_AtMostOneProducer ==
    \A T \in DOMAIN active_connections : Cardinality(LiveTasks(T)) <= 1

\* C2 witness: a connection is registered for a topic whose producer task has
\* been asked to cancel and is not done yet.
C2_Witness ==
    \E T \in DOMAIN active_connections :
        /\ active_connections[T] # {}
        /\ \E id \in LiveTasks(T) : tasks[id].must_cancel

\* C3: the per-topic count of get_connection_stats is the number of
\* connections registered for the topic and not deregistered since.
C3_StatsCountRegistered ==
    \A T \in DOMAIN active_connections :
        get_connection_stats.topic_connections[T] = Cardinality(Registered(T))

\* C3 witness: of two connections registered for a topic, a broadcast pass
\* has deregistered one and the other is counted.
C3_Witness ==
    \E T \in DOMAIN active_connections :
        /\ Cardinality(Registered(T)) = 1
        /\ \E c \in evicted : handler[c].pc = "open" /\ handler[c].topic = T

\* C4: every connection in user_connections[u][T] is in active_connections[T].
C4_UserSetsWithinTopicSets ==
    \A u \in DOMAIN user_connections :
        \A T \in DOMAIN user_connections[u] :
            /\ T \in DOMAIN active_connections
            /\ user_connections[u][T] \subseteq active_connections[T]

\* C5: when the set of a topic is empty every producer task of the topic
\* that is not done has been asked to cancel, and all a task that has been
\* asked to cancel does is end: it starts no send and no pass.
C5_CancelledProducerSendsNothing ==
    [][/\ \A T \in DOMAIN active_connections' :
            active_connections'[T] = {}
                => \A id \in LiveTasks(T)' : tasks'[id].must_cancel
       /\ \A id \in DOMAIN tasks \cap DOMAIN tasks' :
            tasks[id].must_cancel
                => tasks'[id] = tasks[id] \/ tasks'[id].pc = "done"]_vars

\* C5 witness: the last connection of a topic is deregistered while the
\* producer is suspended in a send of a broadcast pass.
C5_Witness ==
    \E id \in DOMAIN tasks :
        /\ tasks[id].pc = "send"
        /\ tasks[id].must_cancel
        /\ active_connections[tasks[id].topic] = {}

\* C6: a broadcast pass that starts after a send to a connection has failed
\* sends nothing to that connection.
C6_NoSendAfterFailedSend ==
    [][/\ (caller.kind = "idle" /\ caller'.kind # "idle")
            => caller'.cur \cap sendFailed = {}
       /\ \A id \in DOMAIN tasks \cap DOMAIN tasks' :
            (tasks[id].pc = "sleep" /\ tasks'[id].pc = "send")
                => tasks'[id].cur \cap sendFailed = {}]_vars

\* C7: a failed send does not stop a broadcast pass: while connections of
\* its snapshot are left the pass goes on to one of them, and after the last
\* send broadcast_to_topic returns to the producer loop, which sleeps again
\* or ends because the topic has no connection left.
C7_FailedSendDoesNotStopPass ==
    [][/\ \A id \in DOMAIN tasks \cap DOMAIN tasks' :
            (/\ tasks[id].pc = "send"
             /\ ~tasks[id].must_cancel
             /\ (tasks'[id].pc # "send" \/ tasks'[id].cur # tasks[id].cur))
            => IF tasks[id].todo # {}
               THEN /\ tasks'[id].pc = "send"
                    /\ tasks'[id].cur \subseteq tasks[id].todo
                    /\ tasks'[id].todo = tasks[id].todo \ tasks'[id].cur
                    /\ tasks[id].failed \subseteq tasks'[id].failed
               ELSE \/ tasks'[id].pc = "sleep"
                    \/ /\ tasks'[id].pc = "done"
                       /\ active_connections'[tasks[id].topic] = {}
       /\ (caller.kind # "idle" /\ caller' # caller /\ caller.todo # {})
            => /\ caller'.kind = caller.kind
               /\ caller'.cur \subseteq caller.todo
               /\ caller'.todo = caller.todo \ caller'.cur
               /\ caller.failed \subseteq caller'.failed]_vars

\* C7 witness: a producer's pass is suspended in a send after a send of the
\* same pass has failed.
C7_Witness ==
    \E id \in DOMAIN tasks :
        tasks[id].pc = "send" /\ tasks[id].failed # {} /\ tasks[id].cur # {}

\* C8: the connection of a session handler that has ended is in no set of
\* the registry.
C8_EndedHandlerDeregistered ==
    \A c \in Conns : handler[c].pc = "done" => ~InRegistry(c)

\* C8 witness: a handler that had registered has ended while a producer of
\* some topic is running.
C8_Witness ==
    /\ \E c \in Conns : handler[c].pc = "done" /\ handler[c].exit = "in_loop"
    /\ \E T \in DOMAIN active_connections : RunningProducer(T)

\* C9: a producer task that has not been asked to cancel ends only when its
\* topic has no connection: a failure in the loop does not end the stream.
C9_FailureDoesNotEndStream ==
    [][\A id \in DOMAIN tasks \cap DOMAIN tasks' :
         (tasks[id].pc # "done" /\ ~tasks[id].must_cancel /\ tasks'[id].pc = "done")
            => active_connections'[tasks[id].topic] = {}]_vars

\* Whether disconnect(c, T, u) finds c neither in the topic's set nor in the
\* user's set for the topic.
Absent(c, T, u) ==
    /\ T \in DOMAIN active_connections => c \notin active_connections[T]
    /\ (u \in DOMAIN user_connections /\ T \in DOMAIN user_connections[u])
           => c \notin user_connections[u][T]

\* C10: disconnect for a connection that is in neither set (a second
\* disconnect, or one for a connection never registered) raises nothing and
\* changes neither the registry nor any producer task.
C10_DisconnectAbsentIsNoOp ==
    [][/\ \A c \in Conns :
            (/\ handler[c].pc \in {"accepting", "open"}
             /\ handler'[c].pc = "done"
             /\ Absent(c, handler[c].topic, handler[c].user))
            => /\ handler'[c].exit # "disconnect_raised"
               /\ UNCHANGED <<active_connections, user_connections,
                              streaming_tasks, tasks>>
       /\ (/\ caller.kind # "idle"
           /\ caller'.kind = "idle"
           /\ \A c \in caller.cur \cup caller.failed :
                Absent(c, caller.topic, caller.user))
            => UNCHANGED <<active_connections, user_connections,
                           streaming_tasks, tasks>>]_vars

\* C10 witness: a handler that left in accept(), and so called disconnect
\* for a connection never registered, has ended while a producer is running.
C10_Witness ==
    /\ \E c \in Conns : handler[c].pc = "done" /\ handler[c].exit = "in_accept"
    /\ \E T \in DOMAIN active_connections : RunningProducer(T)

\* The connections a broadcast pass in progress is sending to or has yet to
\* send to.
PassTargets ==
    caller.cur \cup caller.todo
        \cup UNION {tasks[id].cur \cup tasks[id].todo : id \in DOMAIN tasks}

\* The registry and the producer tasks.
registry == <<active_connections, user_connections, streaming_tasks, tasks>>

\* C11: a request whose authentication fails (no token, verification fails,
\* subject differs from the path) only closes the connection and returns:
\* its handler never reaches connect, so the connection is accepted nowhere,
\* is in no set of the registry, no producer task is started for it and no
\* broadcast pass sends to it; the steps of the rejected handler leave the
\* registry and the producer tasks as they are.
C11_AuthFailureCreatesNoState ==
    [][\A c \in Conns :
         /\ auth'[c].cause \in AuthFailures
               => /\ handler'[c].pc = "closing"
                  /\ ~InRegistry(c)'
                  /\ c \notin PassTargets'
                  /\ auth'[c] # auth[c] => UNCHANGED registry
         /\ (handler[c].pc = "closing" /\ handler'[c].pc # "closing")
               => /\ handler'[c].pc = "done"
                  /\ handler'[c].exit = "rejected"
                  /\ ~InRegistry(c)'
                  /\ UNCHANGED registry]_vars

\* C11 witness: a rejected handler has ended while another connection is
\* registered and its topic's producer is running.
C11_Witness ==
    /\ \E c \in Conns : handler[c].pc = "done" /\ handler[c].exit = "rejected"
    /\ \E T \in DOMAIN active_connections :
         active_connections[T] # {} /\ RunningProducer(T)

\* C12: in each handler the three causes of an authentication failure are
\* closed with pairwise different codes: two requests to the same endpoint
\* rejected for different causes are closed with different codes.
C12_DistinctCloseCodes ==
    \A c, d \in Conns :
        (/\ handler[c].pc = "closing"
         /\ handler[d].pc = "closing"
         /\ handler[c].topic = handler[d].topic
         /\ auth[c].cause # auth[d].cause)
        => auth[c].codes[1] # auth[d].codes[1]

\* C13: a broadcast_to_user pass for user u and topic T sends to exactly
\* the connections that are in user_connections[u][T] when it starts: its
\* first target and the targets it has left are that set, every later send
\* goes to one of the targets left, the pass ends when none is left; and
\* that set holds only connections registered by u for T, none of another
\* user, none registered without a user, none of u for another topic.
C13_UserPassSendsToUserSet ==
    [][/\ (caller.kind = "idle" /\ caller'.kind = "user")
            => /\ caller'.user \in DOMAIN user_connections
               /\ caller'.topic \in DOMAIN user_connections[caller'.user]
               /\ caller'.cur \cup caller'.todo
                     = user_connections[caller'.user][caller'.topic]
               /\ Cardinality(caller'.cur) = 1
               /\ caller'.cur \cap caller'.todo = {}
               /\ \A c \in caller'.cur \cup caller'.todo :
                     /\ handler[c].user = caller'.user
                     /\ handler[c].topic = caller'.topic
       /\ (caller.kind = "user" /\ caller' # caller)
            => IF caller.todo # {}
               THEN /\ caller'.kind = "user"
                    /\ Cardinality(caller'.cur) = 1
                    /\ caller'.cur \subseteq caller.todo
                    /\ caller'.todo = caller.todo \ caller'.cur
               ELSE caller'.kind = "idle"]_vars

\* C13 witness: a pass for a user is sending while the topic has a
\* connection registered without a user, which is not a target.
C13_Witness ==
    /\ caller.kind = "user"
    /\ \E d \in active_connections[caller.topic] :
         /\ handler[d].pc = "open"
         /\ handler[d].user = NoUser
         /\ d \notin caller.cur \cup caller.todo \cup caller.failed

\* The state of the scenario of C14: A is registered for "alerts" under user
\* "u1", B is registered for "alerts" without a user, no send to either has
\* failed in a completed pass, and no other connection is registered.
Scenario(A, B) ==
    /\ A # B
    /\ handler[A].pc = "open"
    /\ handler[A].topic = "alerts"
    /\ handler[A].user = "u1"
    /\ handler[B].pc = "open"
    /\ handler[B].topic = "alerts"
    /\ handler[B].user = NoUser
    /\ evicted \cap {A, B} = {}
    /\ \A d \in Conns \ {A, B} : handler[d].pc # "open"

\* C14: after connect(A, "alerts", "u1") and connect(B, "alerts") the stats
\* count of "alerts" is 2 and a broadcast_to_topic("alerts") pass has
\* exactly A and B as its targets; a disconnect(A, "alerts", "u1") then
\* leaves the count at 1 and user "u1" without an entry in
\* user_connections, so that broadcast_to_user("u1", "alerts") has no target.
C14_ScenarioTwoConnections ==
    [][\A A, B \in Conns :
         Scenario(A, B)
            => /\ get_connection_stats.topic_connections["alerts"] = 2
               /\ (/\ caller.kind = "idle"
                   /\ caller'.kind = "topic"
                   /\ caller'.topic = "alerts")
                    => caller'.cur \cup caller'.todo = {A, B}
               /\ (handler'[A].pc = "done" /\ handler'[B] = handler[B])
                    => /\ get_connection_stats'.topic_connections["alerts"] = 1
                       /\ "u1" \notin DOMAIN user_connections'
                       /\ UserTargets(Manager, "u1", "alerts")' = {}]_vars

\* C14 witness: the state after the scenario: A has been deregistered, B is
\* the one connection of "alerts" and a topic pass is sending to it.
C14_Witness ==
    \E A, B \in Conns :
        /\ handler[A].pc = "done"
        /\ handler[A].exit = "in_loop"
        /\ handler[B].pc = "open"
        /\ handler[B].user = NoUser
        /\ active_connections["alerts"] = {B}
        /\ "u1" \notin DOMAIN user_connections
        /\ caller.kind = "topic"
        /\ caller.cur = {B}

\* C20: a topic outside the canonical six is handled like a canonical one.
\* The connect that registers a connection for it leaves the connection in
\* the topic's set (created if the topic was unknown) and the topic counted
\* by get_connection_stats; the connect for an unknown topic starts a
\* producer task for it; the deregistration that empties its set leaves
\* every producer task of it that is not done with a cancellation requested.
C20_DynamicTopicHandled ==
    [][/\ \A c \in Conns :
            (/\ handler[c].pc = "accepting"
             /\ handler'[c].pc = "open"
             /\ handler[c].topic \notin CanonicalTopics)
            => LET T == handler[c].topic
                   counts == get_connection_stats'.topic_connections
               IN  /\ T \in DOMAIN active_connections'
                   /\ c \in active_connections'[T]
                   /\ T \in DOMAIN counts
                   /\ counts[T] = Cardinality(Registered(T)')
                   /\ counts[T] >= 1
                   /\ T \notin DOMAIN active_connections
                        => /\ active_connections'[T] = {c}
                           /\ T \in DOMAIN streaming_tasks'
                           /\ tasks'[streaming_tasks'[T]].pc = "created"
                           /\ ~tasks'[streaming_tasks'[T]].must_cancel
       /\ \A T \in DOMAIN active_connections \ CanonicalTopics :
            (active_connections[T] # {} /\ active_connections'[T] = {})
            => /\ get_connection_stats'.topic_connections[T] = 0
               /\ \A id \in LiveTasks(T)' : tasks'[id].must_cancel]_vars

\* C20 witness: the last connection of a dynamic topic has been
\* deregistered and the topic's producer, which had started, has a
\* cancellation requested.
C20_Witness ==
    \E T \in DOMAIN active_connections \ CanonicalTopics :
        /\ active_connections[T] = {}
        /\ \E id \in LiveTasks(T) :
             tasks[id].must_cancel /\ tasks[id].pc = "sleep"

\* A pass that starts takes a copy of the set it is for (the topic's set,
\* the user's set for the topic) and suspends in the send to one of them.
SnapshotAtStart ==
    /\ \A id \in DOMAIN tasks \cap DOMAIN tasks' :
         (tasks[id].pc = "sleep" /\ tasks'[id].pc = "send")
            => /\ tasks'[id].cur \cup tasks'[id].todo
                     = active_connections[tasks[id].topic]
               /\ Cardinality(tasks'[id].cur) = 1
               /\ tasks'[id].cur \cap tasks'[id].todo = {}
    /\ (caller.kind = "idle" /\ caller'.kind # "idle")
         => /\ caller'.cur \cup caller'.todo
                  = IF caller'.kind = "topic"
                    THEN active_connections[caller'.topic]
                    ELSE user_connections[caller'.user][caller'.topic]
            /\ Cardinality(caller'.cur) = 1
            /\ caller'.cur \cap caller'.todo = {}

\* Every later send of the pass goes to one connection of the copy that has
\* not been sent to, whatever the registry has become meanwhile.
SendsFollowSnapshot ==
    /\ \A id \in DOMAIN tasks \cap DOMAIN tasks' :
         (/\ tasks[id].pc = "send"
          /\ tasks'[id].pc = "send"
          /\ <<tasks'[id].cur, tasks'[id].todo>> # <<tasks[id].cur, tasks[id].todo>>)
            => /\ Cardinality(tasks'[id].cur) = 1
               /\ tasks'[id].cur \subseteq tasks[id].todo
               /\ tasks'[id].todo = tasks[id].todo \ tasks'[id].cur
    /\ (caller.kind # "idle" /\ caller'.kind # "idle" /\ caller' # caller)
         => /\ Cardinality(caller'.cur) = 1
            /\ caller'.cur \subseteq caller.todo
            /\ caller'.todo = caller.todo \ caller'.cur

\* C15 as claimed: a broadcast pass sends to every connection of the copy
\* it took at its start exactly once, whatever is registered or deregistered
\* while it is suspended: it ends only when no connection of the copy is left.
C15_SnapshotSentExactlyOnce ==
    [][/\ SnapshotAtStart
       /\ SendsFollowSnapshot
       /\ \A id \in DOMAIN tasks \cap DOMAIN tasks' :
            (tasks[id].pc = "send" /\ tasks'[id].pc # "send")
                => tasks[id].todo = {}
       /\ (caller.kind # "idle" /\ caller'.kind = "idle")
            => caller.todo = {}]_vars

\* C15 as amended: the same, unless the task that runs the pass is cancelled
\* while the pass is suspended in a send; the pass is then abandoned.
C15_SnapshotSentOnceUnlessCancelled ==
    [][/\ SnapshotAtStart
       /\ SendsFollowSnapshot
       /\ \A id \in DOMAIN tasks \cap DOMAIN tasks' :
            (tasks[id].pc = "send" /\ tasks'[id].pc # "send")
                => tasks[id].todo = {} \/ tasks[id].must_cancel
       /\ (caller.kind # "idle" /\ caller'.kind = "idle")
            => caller.todo = {}]_vars

\* C15 witness: a producer's pass is suspended in a send and a connection
\* of its copy that it has not sent to yet has been deregistered meanwhile.
C15_Witness ==
    \E id \in DOMAIN tasks :
        /\ tasks[id].pc = "send"
        /\ ~tasks[id].must_cancel
        /\ tasks[id].todo \ active_connections[tasks[id].topic] # {}

\* The producer tasks of topic T that are inside a broadcast pass.
InPass(T) == {id \in DOMAIN tasks : tasks[id].topic = T /\ tasks[id].pc = "send"}

\* C16: the events of a topic are broadcast one after the other, in the
\* order they are generated: when a producer generates an event and starts
\* its pass, its pass for the event before is over and no other producer
\* task of the topic is inside a pass; at no time are two passes of
\* producers of one topic in progress.
C16_EventsInGenerationOrder ==
    [][/\ \A id \in DOMAIN tasks \cap DOMAIN tasks' :
            (tasks[id].pc = "sleep" /\ tasks'[id].pc = "send")
                => /\ tasks[id].cur = {}
                   /\ tasks[id].todo = {}
                   /\ InPass(tasks[id].topic) = {}
                   /\ InPass(tasks[id].topic)' = {id}
       /\ \A T \in DOMAIN active_connections' : Cardinality(InPass(T)') <= 1]_vars

\* C16 witness: a producer is inside the pass of an event after a pass of
\* the topic's producer has completed (it deregistered a connection whose
\* send failed; the handler of that connection has not ended yet).
C16_Witness ==
    \E id \in DOMAIN tasks :
        /\ tasks[id].pc = "send"
        /\ ~tasks[id].must_cancel
        /\ \E c \in evicted :
             handler[c].pc = "open" /\ handler[c].topic = tasks[id].topic

\* The users with a connection that is in the set of some topic.
UsersWithConnection ==
    {handler[c].user :
        c \in {d \in Conns : /\ handler[d].user # NoUser
                             /\ \E T \in DOMAIN active_connections :
                                  d \in active_connections[T]}}

\* C17: the aggregates of get_connection_stats are consistent in every
\* state: the total is the number of registered connections over all
\* topics, active_topics the number of topics with a non-empty set, and
\* user_sessions the number of users with a connection in some topic's set.
C17_StatsAggregates ==
    LET stats == get_connection_stats
    IN  /\ stats.total_connections
             = SumOver(stats.topic_connections, DOMAIN stats.topic_connections)
        /\ stats.total_connections
             = SumOver([T \in DOMAIN active_connections |-> Cardinality(Registered(T))],
                       DOMAIN active_connections)
        /\ stats.active_topics
             = Cardinality({T \in DOMAIN active_connections : Registered(T) # {}})
        /\ stats.user_sessions = Cardinality(UsersWithConnection)

\* Every producer task that has a cancellation requested ends.
CancelledTaskEnds ==
    \A id \in AllTaskIds :
        (id \in DOMAIN tasks /\ tasks[id].must_cancel)
            ~> (id \notin DOMAIN tasks \/ tasks[id].pc = "done")

\* The step a task with a cancellation requested takes is its last, and it
\* changes nothing but the task.
CancelledTaskStepsOnce(id) ==
    (tasks[id].must_cancel /\ tasks'[id] # tasks[id] /\ tasks[id].pc # "done")
        => /\ tasks'[id].pc = "done"
           /\ UNCHANGED <<active_connections, user_connections,
                          streaming_tasks, handler, caller>>

\* C18 as claimed: a producer task that disconnect has cancelled ends, at
\* its next step, and ends with the cancellation caught inside
\* _stream_topic_data: the coroutine returns, the task is not left in the
\* cancelled state.
C18_CancellationAbsorbedInLoop ==
    /\ CancelledTaskEnds
    /\ [][\A id \in DOMAIN tasks \cap DOMAIN tasks' :
            /\ CancelledTaskStepsOnce(id)
            /\ (tasks[id].pc # "done" /\ tasks'[id].pc = "done")
                  => tasks'[id].result = "returned"]_vars

\* C18 as amended: a producer task that disconnect has cancelled ends, at
\* its next step.  A cancellation delivered at a suspension point of
\* _stream_topic_data (its sleep, a send of its pass) is caught there and the
\* task returns; a task cancelled before its first step, and a task whose
\* own pass emptied the topic's set and so cancelled itself, end in the
\* cancelled state.  No step of a cancelled task touches anything else.
C18_CancelledProducerEnds ==
    /\ CancelledTaskEnds
    /\ [][\A id \in DOMAIN tasks \cap DOMAIN tasks' :
            /\ CancelledTaskStepsOnce(id)
            /\ (tasks[id].pc # "done" /\ tasks'[id].pc = "done")
                  => tasks'[id].result =
                        IF \/ tasks[id].pc = "created" /\ tasks[id].must_cancel
                           \/ /\ tasks[id].pc = "send"
                              /\ ~tasks[id].must_cancel
                              /\ active_connections[tasks[id].topic] # {}
                              /\ active_connections'[tasks[id].topic] = {}
                        THEN "cancelled"
                        ELSE "returned"]_vars

\* C18 witness: a producer task cancelled before its first step has ended,
\* and another one, suspended in its sleep or in a send, has a cancellation
\* requested.
C18_Witness ==
    /\ \E id \in DOMAIN tasks :
         tasks[id].pc = "done" /\ tasks[id].result = "cancelled"
    /\ \E id \in DOMAIN tasks :
         tasks[id].must_cancel /\ tasks[id].pc \in {"sleep", "send"}

\* The step leaves everything but the handler of c and its inbox as it is.
OnlyHandlerOf(c) ==
    /\ \A d \in Conns \ {c} : handler'[d] = handler[d]
    /\ UNCHANGED <<active_connections, user_connections, streaming_tasks,
                   tasks, caller, sendFailed, evicted>>

\* Whether the handler of c has ended in this step for a reason of its own
\* (its client closed, its task was cancelled, an exception elsewhere).
EndedInLoop(c) == handler'[c].pc = "done" /\ handler'[c].exit = "in_loop"

C21_NoEmptyUserEntries ==
    \A u \in DOMAIN user_connections :
        /\ DOMAIN user_connections[u] # {}
        /\ \A T \in DOMAIN user_connections[u] : user_connections[u][T] # {}

\* C21 witness: a handler that had registered has deregistered and its
\* user's entry is gone (user "u1" registers first), while another user has
\* an entry.
C21_Witness ==
    /\ \E c \in Conns : handler[c].pc = "done" /\ handler[c].exit = "in_loop"
    /\ "u1" \notin DOMAIN user_connections
    /\ "u2" \in DOMAIN user_connections

\* C22: every iteration of a producer loop ends in a broadcast: whenever
\* the producer task of a topic that has registered connections (whatever
\* the topic) is in the sleep of its loop with no cancellation requested,
\* the step it takes when the sleep returns can generate an event and start
\* a pass of broadcast_to_topic over the topic's connections.
C22_EveryIterationBroadcasts ==
    \A id \in DOMAIN tasks :
        (/\ tasks[id].pc = "sleep"
         /\ ~tasks[id].must_cancel
         /\ LoopCondition(Manager, tasks[id].topic))
        => ENABLED (TaskWake(id) /\ tasks'[id].pc = "send")

\* The sets of the registry the connection is in: <<NoUser, T>> for the set
\* of topic T, <<u, T>> for the set of user u for topic T.
Places(c) ==
    {<<NoUser, T>> : T \in {S \in DOMAIN active_connections :
                              c \in active_connections[S]}}
    \cup UNION {{<<u, T>> : T \in {S \in DOMAIN user_connections[u] :
                                     c \in user_connections[u][S]}} :
                u \in DOMAIN user_connections}

\* What a step of a broadcast pass p (its cur, todo, failed before the
\* step) may do to the registry: nothing while the pass continues; when it
\* ends, only connections whose send failed in the pass leave a set, and,
\* unless the pass was abandoned, every one of them has left the topic's set.
DeferredRemoval(p, continues, abandoned) ==
    IF continues
    THEN \A c \in Conns : Places(c)' = Places(c)
    ELSE /\ \A c \in Conns \ (p.failed \cup p.cur) : Places(c)' = Places(c)
         /\ \A c \in p.cur : Places(c)' # Places(c) => c \in sendFailed'
         /\ ~abandoned => \A c \in p.failed : <<NoUser, p.topic>> \notin Places(c)'

\* C23: a broadcast pass (of a producer, of another caller; for a topic,
\* for a user) removes no connection from the registry while a connection
\* of its copy is left to send to; after the last send it calls disconnect
\* for the connections whose send failed, and no connection whose send
\* succeeded is removed by the pass.
C23_RemovalDeferred ==
    [][/\ \A id \in DOMAIN tasks \cap DOMAIN tasks' :
            (/\ tasks[id].pc = "send"
             /\ <<tasks'[id].pc, tasks'[id].cur, tasks'[id].todo, tasks'[id].failed>>
                  # <<tasks[id].pc, tasks[id].cur, tasks[id].todo, tasks[id].failed>>)
            => DeferredRemoval(tasks[id], tasks'[id].pc = "send",
                               tasks[id].must_cancel)
       /\ (caller.kind # "idle" /\ caller' # caller)
            => DeferredRemoval(caller, caller'.kind # "idle", FALSE)]_vars

\* C23 witness: a pass is suspended in a send after a send of the same pass
\* has failed, and the connection of the failed send is still registered.
C23_Witness ==
    /\ caller.kind # "idle"
    /\ caller.cur # {}
    /\ caller.failed # {}
    /\ caller.failed \subseteq active_connections[caller.topic]

\* C24: the shutdown step of lifespan cancels every producer that is still
\* running: after the step every task that streaming_tasks refers to and
\* that is not done has a cancellation requested.
C24_ShutdownCancelsProducers ==
    [][(caller.kind # "cancelled" /\ caller'.kind = "cancelled")
          => \A T \in DOMAIN streaming_tasks' :
                tasks'[streaming_tasks'[T]].pc # "done"
                   => tasks'[streaming_tasks'[T]].must_cancel]_vars

\* C25: get_connection_stats is read-only: the step of the monitor that
\* calls it (and then starts its broadcast to "metrics", or finds that topic
\* without a connection) leaves active_connections, user_connections and
\* streaming_tasks as they are.
C25_StatsReadOnly ==
    [][(/\ caller.kind = "idle"
        /\ handler' = handler
        /\ tasks' = tasks
        /\ \/ caller' = caller
           \/ caller'.kind = "topic" /\ caller'.topic = "metrics")
          => UNCHANGED <<active_connections, user_connections,
                         streaming_tasks>>]_vars

\* C25 witness: the monitor has called get_connection_stats and is in the
\* broadcast to "metrics" that follows the call; the registry still has its
\* topics without a connection, the user entries and the producer tasks.
C25_Witness ==
    /\ caller.kind = "topic"
    /\ caller.topic = "metrics"
    /\ active_connections["alerts"] # {}
    /\ active_connections["logs"] = {}
    /\ "u1" \in DOMAIN user_connections
    /\ DOMAIN streaming_tasks = {"alerts", "metrics"}

\* What disconnect may do to the producer tasks: none is created, removed or
\* replaced, and a task changes only in that a cancellation is requested
\* of it.
OnlyCancels ==
    /\ streaming_tasks' = streaming_tasks
    /\ DOMAIN tasks' = DOMAIN tasks
    /\ \A id \in DOMAIN tasks :
         \/ tasks'[id] = tasks[id]
         \/ tasks'[id] = [tasks[id] EXCEPT !.must_cancel = TRUE]

\* C26: disconnect(c, T, u) touches only the subscription of c to T: every
\* other connection stays in exactly the sets it was in, the sets of the
\* other topics are as before, and the only effect on the producer tasks is
\* a cancellation requested of the task of T when the set of T is empty
\* after the removal.  In no step is a cancellation requested of the
\* producer of a topic that still has a connection.
C26_DisconnectOwnSubscriptionOnly ==
    [][/\ \A c \in Conns :
            (handler[c].pc \in {"accepting", "open"} /\ handler'[c].pc = "done")
            => LET T == handler[c].topic
               IN  /\ \A d \in Conns \ {c} : Places(d)' = Places(d)
                   /\ DOMAIN active_connections' = DOMAIN active_connections
                   /\ \A S \in DOMAIN active_connections \ {T} :
                        active_connections'[S] = active_connections[S]
                   /\ T \in DOMAIN active_connections
                        => active_connections'[T] = active_connections[T] \ {c}
                   /\ OnlyCancels
                   /\ \A id \in DOMAIN tasks :
                        tasks'[id] # tasks[id]
                           => /\ T \in DOMAIN streaming_tasks
                              /\ id = streaming_tasks[T]
                              /\ active_connections'[T] = {}
       /\ \A id \in DOMAIN tasks \cap DOMAIN tasks' :
            (~tasks[id].must_cancel /\ tasks'[id].must_cancel)
               => active_connections'[tasks[id].topic] = {}]_vars

\* C26 witness: one of two connections of a topic has been deregistered by
\* its handler; the other is still registered and the topic's producer, the
\* only one there has been, runs with no cancellation requested.
C26_Witness ==
    \E c, d \in Conns :
        /\ handler[c].pc = "done"
        /\ handler[c].exit = "in_loop"
        /\ handler[d].pc = "open"
        /\ active_connections[handler[d].topic] = {d}
        /\ DOMAIN streaming_tasks = {handler[d].topic}
        /\ DOMAIN tasks = {streaming_tasks[handler[d].topic]}
        /\ RunningProducer(handler[d].topic)

\* A step of a broadcast pass p none of whose sends has failed, the one that
\* returns in this step included, leaves the registry as it is and requests
\* no cancellation.
CleanPassStep(p) ==
    (p.failed = {} /\ p.cur \cap sendFailed' = {})
        => /\ UNCHANGED <<active_connections, user_connections, streaming_tasks>>
           /\ \A id \in DOMAIN tasks \cap DOMAIN tasks' :
                tasks'[id].must_cancel = tasks[id].must_cancel

\* The keys of user_connections: the users, and each user with a topic.
UserKeys ==
    {<<u>> : u \in DOMAIN user_connections}
        \cup UNION {{<<u, T>> : T \in DOMAIN user_connections[u]} :
                    u \in DOMAIN user_connections}

\* C27: a broadcast pass in which every send succeeds changes nothing in
\* active_connections, user_connections and streaming_tasks, from its start
\* to its end.  A broadcast to a topic, or to a user and topic, that has no
\* entry has no connection to send to, and no step of a broadcast creates an
\* entry.
C27_CleanPassChangesNothing ==
    /\ [][/\ \A id \in DOMAIN tasks \cap DOMAIN tasks' :
               (/\ tasks[id].pc \in {"sleep", "send"}
                /\ ~tasks[id].must_cancel
                /\ <<tasks'[id].pc, tasks'[id].cur, tasks'[id].todo>>
                     # <<tasks[id].pc, tasks[id].cur, tasks[id].todo>>)
               => CleanPassStep(tasks[id])
          /\ caller' # caller => CleanPassStep(caller)
          /\ handler' = handler
               => /\ DOMAIN active_connections' = DOMAIN active_connections
                  /\ UserKeys' \subseteq UserKeys]_vars
    /\ [](\A T \in ApiTopics, u \in Users :
            /\ T \notin DOMAIN active_connections
                 => TopicTargets(Manager, T) = {}
            /\ <<u, T>> \notin UserKeys => UserTargets(Manager, u, T) = {})

\* C27 witness: a pass over two registered connections is in its last send,
\* no send has failed, and the other topic of the broadcasts has no entry.
C27_Witness ==
    /\ caller.kind \in {"topic", "user"}
    /\ caller.todo = {}
    /\ caller.failed = {}
    /\ sendFailed = {}
    /\ evicted = {}
    /\ Cardinality(active_connections[caller.topic]) = 2
    /\ caller.cur \subseteq active_connections[caller.topic]
    /\ DynamicTopic \notin DOMAIN active_connections

\* Whether the stream_alerts task of the connection exists and has not ended.
AlertTaskLive(c) == alert_task[c].pc \in {"created", "send", "sleep"}

\* C28: the stream_alerts task does not outlive its handler.  When a
\* websocket_alerts handler that has created the task ends, a cancellation
\* is requested of the task in the step that deregisters the connection; a
\* task with a cancellation requested ends at its next step and starts no
\* send; so the task of an ended handler starts no send, and it finishes.
C28_AlertTaskEndsWithHandler ==
    /\ [](\A c \in Conns :
            (handler[c].pc = "done" /\ AlertTaskLive(c))
               => alert_task[c].must_cancel)
    /\ [][\A c \in Conns :
            /\ (alert_task[c].must_cancel /\ alert_task'[c] # alert_task[c])
                  => alert_task'[c].pc = "done"
            /\ (handler[c].pc = "done" /\ alert_task'[c].pc = "send")
                  => alert_task[c].pc = "send"
            /\ (AlertTaskLive(c) /\ handler[c].pc # "done" /\ handler'[c].pc = "done")
                  => /\ alert_task'[c].must_cancel
                     /\ ~InRegistry(c)']_vars
    /\ \A c \in Conns :
         (handler[c].pc = "done" /\ AlertTaskLive(c)) ~> ~AlertTaskLive(c)

\* C28 witness: the handler of an alerts connection has ended while its
\* stream_alerts task was suspended in a send; the cancellation is requested
\* and not yet delivered.
C28_Witness ==
    \E c \in Conns :
        /\ handler[c].pc = "done"
        /\ alert_task[c].pc = "send"
        /\ alert_task[c].must_cancel

\* The sets a connection registered for topic T by user u (or by none) is in
\* when it is fully registered.
FullPlaces(T, u) ==
    {<<NoUser, T>>} \cup (IF u # NoUser THEN {<<u, T>>} ELSE {})

\* C29: registration is all-or-nothing around the handshake.  A handler
\* that leaves connect in accept() (accept fails, the task is cancelled in
\* it) leaves the registry and the producer tasks as they are and its
\* connection in no set.  The step in which accept() returns puts the
\* connection into the topic's set and into the user's set and leaves the
\* topic with a producer task that is not done, all in that one step; a
\* connection enters a set in no other step.  So in every state a
\* connection that has not got through accept() is in no set, and one that
\* is in a topic's set is in the set of its user as well.
C29_RegistrationAllOrNothing ==
    /\ [][\A c \in Conns :
            /\ (handler[c].pc = "accepting" /\ handler'[c].pc = "done")
                  => /\ Places(c)' = {}
                     /\ UNCHANGED registry
            /\ (handler[c].pc = "accepting" /\ handler'[c].pc = "open")
                  => /\ Places(c)' = FullPlaces(handler[c].topic, handler[c].user)
                     /\ handler[c].topic \in DOMAIN streaming_tasks'
                     /\ tasks'[streaming_tasks'[handler[c].topic]].pc # "done"
            /\ Places(c)' \ Places(c) # {}
                  => handler[c].pc = "accepting" /\ handler'[c].pc = "open"]_vars
    /\ [](\A c \in Conns :
            /\ handler[c].pc \in {"idle", "accepting"} => Places(c) = {}
            /\ (handler[c].pc = "open" /\ <<NoUser, handler[c].topic>> \in Places(c))
                  => Places(c) = FullPlaces(handler[c].topic, handler[c].user))

\* C29 witness: a handler has left in accept() while another connection,
\* registered by a user, is in the topic's set and in the user's set and its
\* topic has a producer; a third request may be waiting in accept().
C29_Witness ==
    \E c, d \in Conns :
        /\ handler[c].pc = "done"
        /\ handler[c].exit = "in_accept"
        /\ handler[d].pc = "open"
        /\ handler[d].user # NoUser
        /\ Places(d) = FullPlaces(handler[d].topic, handler[d].user)
        /\ handler[d].topic \in DOMAIN streaming_tasks

\* The broadcast of one alert record by the monitor: the pass over "alerts"
\* takes a copy of the topic's set and sends to one connection of the copy
\* after the other, to none twice; the monitor starts no pass for a topic
\* named after a user.
AlertRecordPass ==
    /\ (caller.kind = "idle" /\ caller'.kind = "topic")
          => /\ caller'.topic \in DOMAIN active_connections
             /\ caller'.topic \notin {UserChannel(u) : u \in Users}
             /\ caller'.cur \cup caller'.todo = active_connections[caller'.topic]
             /\ Cardinality(caller'.cur) = 1
             /\ caller'.cur \cap caller'.todo = {}
    /\ (caller.kind = "topic" /\ caller'.kind = "topic" /\ caller' # caller)
          => /\ Cardinality(caller'.cur) = 1
             /\ caller'.cur \subseteq caller.todo
             /\ caller'.todo = caller.todo \ caller'.cur

\* No connection is ever registered under the topic named after a user, so
\* the second broadcast of a record has no connection to send to.
UserChannelsEmpty ==
    \A u \in Users :
        /\ UserChannel(u) \notin DOMAIN active_connections
        /\ TopicTargets(Manager, UserChannel(u)) = {}
        /\ \A c \in Conns : handler[c].topic # UserChannel(u)

\* C30 as claimed: within a poll an alert record that carries a user id is
\* sent exactly once to each connection registered on "alerts": the pass
\* over "alerts" sends once to every connection of its copy and ends only
\* when none is left, and the broadcast to "alerts_user_<user_id>" reaches
\* no connection.
C30_AlertSentExactlyOnce ==
    /\ [][/\ AlertRecordPass
          /\ (caller.kind = "topic" /\ caller'.kind # "topic")
                => caller.todo = {}]_vars
    /\ []UserChannelsEmpty

\* C30 as amended: the same, except that the pass over "alerts" is cut
\* short, and the connections left in its copy are sent nothing, when the
\* shutdown step cancels the monitor while the pass is suspended in a send:
\* a connection is sent the record at most once in any case.
C30_AlertSentOnceUnlessShutdown ==
    /\ [][/\ AlertRecordPass
          /\ (caller.kind = "topic" /\ caller'.kind # "topic")
                => caller.todo = {} \/ caller'.kind = "cancelled"]_vars
    /\ []UserChannelsEmpty

\* C30 witness: the monitor is in the last send of a pass over "alerts" that
\* has sent to a connection of user "u1" and to one of user "u2"; both users
\* have an entry and neither has a topic of its own.
C30_Witness ==
    /\ caller.kind = "topic"
    /\ caller.topic = "alerts"
    /\ caller.todo = {}
    /\ Cardinality(active_connections["alerts"]) = 2
    /\ caller.cur \subseteq active_connections["alerts"]
    /\ DOMAIN user_connections = {"u1", "u2"}
    /\ DOMAIN active_connections = CanonicalTopics

=============================================================================
